---- MODULE Spec2Model ----
(***************************************************************************)
(* The /messages endpoints of src/app/main.py: GET /messages               *)
(* (get_messages) and POST /messages (post_messages), with the helpers     *)
(* post_messages runs: search_web, generate_answer, get_llm_completion.    *)
(*                                                                         *)
(* Text is a sequence of tokens, so that an f-string is the concatenation  *)
(* of its literal pieces and its formatted values.  Python's None is the   *)
(* distinguished value None.                                               *)
(***************************************************************************)
EXTENDS Naturals, Sequences, FiniteSets, TLC

VARIABLES
    web,            \* the result lists the search service may give in this run
    backend,        \* what the completion backend may do during the run
    api_key,        \* os.getenv("GEMINI_API_KEY") is set (a non-empty string)
    chats,          \* the store: messages of each existing chat, oldest first
    pc,             \* per request: the statement of its handler it is at
    req,            \* per request: method, username, chat_id, query
    chat_history,   \* per request: what get_messages_query returned
    raw_sources,    \* per request: what fetch_web_sources returned
    web_sources,    \* per request: what search_web returned
    sent,           \* per request: the arguments of get_llm_completion
    wire,           \* per request: the "parts" list posted to the backend
    reply,          \* per request: what the backend did with the posted request
    search_result,  \* per request: the SearchResult generate_answer built
    status          \* per request: the HTTP status answered, "" while running

vars == <<web, backend, api_key, chats, pc, req, chat_history, raw_sources,
          web_sources, sent, wire, reply, search_result, status>>

----------------------------------------------------------------------------
(* Bounds of the model. *)

NumRequests == 2
MaxSources == 2
MaxPrior == 2

Requests == 1..NumRequests

----------------------------------------------------------------------------
(* Values. *)

None == <<"<None>">>

Users == {"alice", "bob"}
ChatIds == {"c1", "missing"}
\* The chats that exist in the store: alice owns chat c1, bob owns no chat.
ExistingChats == {<<"alice", "c1">>}
\* The (username, chat_id) pairs a request may name.
Targets == {<<"alice", "c1">>, <<"bob", "missing">>}
Queries == {<<"q1">>, <<"q2">>}

\* The HTTP statuses of the answers; "" while the handler runs.
CREATED == "201 Created"
OK == "200 OK"
INTERNAL_SERVER_ERROR == "500 Internal Server Error"

UrlAt(i) == <<"u" \o ToString(i)>>
Texts == {<<"t1">>}

\* What fetch_web_sources may return: up to MaxSources documents, the i-th
\* with url UrlAt(i), each with extracted text or with text None.
FetchResults ==
    UNION {[1..n -> Texts \cup {None}] : n \in 0..MaxSources}

WebSource(i, text) == [url |-> UrlAt(i), text |-> text]

RawSources(texts) == [i \in DOMAIN texts |-> WebSource(i, texts[i])]

\* The messages a chat may hold before the requests of the model start: the
\* first n messages of an earlier conversation, user and assistant in turn.
PriorMessage(i) ==
    [role |-> IF i % 2 = 1 THEN "user" ELSE "assistant",
     body |-> <<"m" \o ToString(i)>>, sources |-> <<>>, origin |-> 0]

PriorMessages(n) == [i \in 1..n |-> PriorMessage(i)]

NoRequest == [method |-> "", username |-> "", chat_id |-> "", query |-> <<>>]
NotSent == [system_prompt |-> <<>>, messages |-> <<>>]
NoResult == [response |-> None, sources |-> <<>>]

----------------------------------------------------------------------------
(* The persistence queries (app/queries/*.edgeql). *)

get_messages_query(username, chat_id) ==
    IF <<username, chat_id>> \in ExistingChats
    THEN chats[<<username, chat_id>>]
    ELSE <<>>

\* origin is the request that added the message (0: before the model starts);
\* it stands for the identity the store gives every message.
add_message_query(username, role, body, sources, chat_id, origin) ==
    IF <<username, chat_id>> \in ExistingChats
    THEN [chats EXCEPT ![<<username, chat_id>>] =
            Append(@, [role |-> role, body |-> body, sources |-> sources,
                       origin |-> origin])]
    ELSE chats

----------------------------------------------------------------------------
(* search_web: line 55, the filter applied to what fetch_web_sources gave. *)

\* A variant that keeps every source.
search_web_unfiltered(raw) == raw

search_web(raw) == SelectSeq(raw, LAMBDA s : s.text # None)

----------------------------------------------------------------------------
(* generate_answer: the prompt and the messages. *)

system_prompt == <<"You are a helpful assistant that answers ...">>

\* f"{x}": str(None) is "None".
Format(x) == IF x = None THEN <<"None">> ELSE x

RECURSIVE ResultBlocks(_, _)
ResultBlocks(sources, i) ==
    IF i > Len(sources) THEN <<>>
    ELSE <<"Result ", ToString(i - 1), " (URL: ">> \o Format(sources[i].url)
            \o <<"):\n">> \o Format(sources[i].text) \o <<"\n\n">>
            \o ResultBlocks(sources, i + 1)

Prompt(query, sources) ==
    <<"User search query: ">> \o Format(query)
        \o <<"\n\nWeb search results:\n">> \o ResultBlocks(sources, 1)

\* A variant that sends the prompt alone (the assignment line 118 keeps as a
\* comment).
MessagesPromptOnly(history, prompt) == <<[text |-> prompt]>>

Messages(history, prompt) ==
    [i \in 1..Len(history) |-> [text |-> history[i].body]]
        \o <<[text |-> prompt]>>

----------------------------------------------------------------------------
(* get_llm_completion. *)

\* The "parts" list of the posted JSON body.
Parts(sys, messages) == <<[text |-> sys]>> \o messages

\* What the backend may do with the posted request.
Replies == {"ConnectionError", "HTTP500", "EmptyObject", "NoCandidates",
            "NoContent", "Ok", "NoReply"}

\* The JSON body of a 2xx reply; an object is a function of its keys.
Json(r) ==
    CASE r = "EmptyObject"  -> <<>>
      [] r = "NoCandidates" -> [candidates |-> <<>>]
      [] r = "NoContent"    -> [candidates |-> <<[finishReason |-> "SAFETY"]>>]
      [] r = "Ok"           ->
            [candidates |-> <<[content |-> [parts |-> <<[text |-> <<"answer">>]>>]]>>]

Return(v) == [kind |-> "return", value |-> v, exc |-> ""]
Raise(e) == [kind |-> "raise", value |-> None, exc |-> e]

\* Line 88: result['candidates'][0]['content']['parts'][0]['text'].
Subscript(result) ==
    LET c == result.candidates[1] IN
    IF "content" \notin DOMAIN c THEN Raise("KeyError")
    ELSE IF "parts" \notin DOMAIN c.content THEN Raise("KeyError")
    ELSE IF Len(c.content.parts) = 0 THEN Raise("IndexError")
    ELSE IF "text" \notin DOMAIN c.content.parts[1] THEN Raise("KeyError")
    ELSE Return(c.content.parts[1].text)

\* The outcome of get_llm_completion when the backend does r (r # "NoReply").
get_llm_completion(key, r) ==
    IF ~key THEN Raise("ValueError")
    ELSE IF r \in {"ConnectionError", "HTTP500"} THEN Return(None)
    ELSE LET result == Json(r) IN
         IF DOMAIN result # {} /\ "candidates" \in DOMAIN result
               /\ Len(result.candidates) > 0
         THEN Subscript(result)
         ELSE Return(None)

----------------------------------------------------------------------------
(* The state after construction. *)

InitRequests ==
    /\ api_key \in BOOLEAN
    /\ req = [r \in Requests |-> NoRequest]
    /\ chat_history = [r \in Requests |-> <<>>]
    /\ raw_sources = [r \in Requests |-> <<>>]
    /\ web_sources = [r \in Requests |-> <<>>]
    /\ sent = [r \in Requests |-> NotSent]
    /\ wire = [r \in Requests |-> <<>>]
    /\ reply = [r \in Requests |-> "none"]
    /\ search_result = [r \in Requests |-> NoResult]
    /\ status = [r \in Requests |-> ""]

\* Concurrent requests against a search service that finds one document
\* without text and one with text, and a backend that answers, cannot be
\* reached or does not answer; the chat is new or holds an earlier conversation.
Init ==
    /\ chats \in [ExistingChats -> {PriorMessages(0), PriorMessages(MaxPrior)}]
    /\ web = {<<None, <<"t1">>>>}
    /\ backend = {"Ok", "ConnectionError", "NoReply"}
    /\ pc = [r \in Requests |-> "idle"]
    /\ InitRequests

\* One request against every search result, every backend behaviour and
\* every length of the earlier conversation.
InitOne ==
    /\ chats \in [ExistingChats -> {PriorMessages(n) : n \in 0..MaxPrior}]
    /\ web = FetchResults
    /\ backend = Replies
    /\ pc = [r \in Requests |-> IF r = 1 THEN "idle" ELSE "unused"]
    /\ InitRequests

\* Requests are interchangeable: they arrive in the order of their numbers.
Arrives(r) == pc[r] = "idle" /\ (IF r = 1 THEN TRUE ELSE pc[r - 1] # "idle")

----------------------------------------------------------------------------
(* GET /messages *)

get_messages(r) ==
    /\ Arrives(r)
    /\ \E username \in Users, chat_id \in ChatIds :
          /\ <<username, chat_id>> \in Targets
          /\ req' = [req EXCEPT ![r] = [method |-> "GET", username |-> username,
                                        chat_id |-> chat_id, query |-> <<>>]]
          \* the response body is what the query returned
          /\ chat_history' = [chat_history EXCEPT ![r] =
                                 get_messages_query(username, chat_id)]
    /\ status' = [status EXCEPT ![r] = OK]
    /\ pc' = [pc EXCEPT ![r] = "done"]
    /\ UNCHANGED <<web, backend, api_key, chats, raw_sources, web_sources, sent,
                   wire, reply, search_result>>

----------------------------------------------------------------------------
(* POST /messages *)

\* A variant that persists the user message before it loads the history.
LoadHistoryAfterAdd(r) ==
    /\ Arrives(r)
    /\ \E username \in Users, chat_id \in ChatIds, query \in Queries :
          /\ <<username, chat_id>> \in Targets
          /\ req' = [req EXCEPT ![r] =
                        [method |-> "POST", username |-> username,
                         chat_id |-> chat_id, query |-> query]]
          /\ chats' = add_message_query(username, "user", query, <<>>, chat_id, r)
          /\ chat_history' = [chat_history EXCEPT ![r] =
                IF <<username, chat_id>> \in ExistingChats
                THEN chats'[<<username, chat_id>>] ELSE <<>>]
    /\ pc' = [pc EXCEPT ![r] = "search"]
    /\ UNCHANGED <<web, backend, api_key, raw_sources, web_sources, sent, wire,
                   reply, search_result, status>>

\* Lines 203-210: the request arrives and the history is loaded.
LoadHistory(r) ==
    /\ Arrives(r)
    /\ \E username \in Users, chat_id \in ChatIds, query \in Queries :
          /\ <<username, chat_id>> \in Targets
          /\ req' = [req EXCEPT ![r] =
                        [method |-> "POST", username |-> username,
                         chat_id |-> chat_id, query |-> query]]
          /\ chat_history' = [chat_history EXCEPT ![r] =
                                 get_messages_query(username, chat_id)]
    /\ pc' = [pc EXCEPT ![r] = "add_user"]
    /\ UNCHANGED <<web, backend, api_key, chats, raw_sources, web_sources, sent,
                   wire, reply, search_result, status>>

\* A variant whose user message never reaches the store.
AddUserMessageLost(r) ==
    /\ pc[r] = "add_user"
    /\ pc' = [pc EXCEPT ![r] = "search"]
    /\ UNCHANGED <<web, backend, api_key, chats, req, chat_history, raw_sources,
                   web_sources, sent, wire, reply, search_result, status>>

\* Lines 212-219.
AddUserMessage(r) ==
    /\ pc[r] = "add_user"
    /\ chats' = add_message_query(req[r].username, "user", req[r].query, <<>>,
                                  req[r].chat_id, r)
    /\ pc' = [pc EXCEPT ![r] = "search"]
    /\ UNCHANGED <<web, backend, api_key, req, chat_history, raw_sources,
                   web_sources, sent, wire, reply, search_result, status>>

\* Lines 221-222 and 53-55.
SearchWeb(r) ==
    /\ pc[r] = "search"
    /\ \E texts \in web :
          /\ raw_sources' = [raw_sources EXCEPT ![r] = RawSources(texts)]
          /\ web_sources' = [web_sources EXCEPT ![r] =
                                search_web(RawSources(texts))]
    /\ pc' = [pc EXCEPT ![r] = "generate"]
    /\ UNCHANGED <<web, backend, api_key, chats, req, chat_history, sent, wire,
                   reply, search_result, status>>

\* fetch_web_sources raises: nothing in search_web or post_messages catches it.
SearchWebRaises(r) ==
    /\ pc[r] = "search"
    /\ status' = [status EXCEPT ![r] = INTERNAL_SERVER_ERROR]
    /\ pc' = [pc EXCEPT ![r] = "error"]
    /\ UNCHANGED <<web, backend, api_key, chats, req, chat_history, raw_sources,
                   web_sources, sent, wire, reply, search_result>>

\* Lines 112-128: the call of get_llm_completion that generate_answer makes.
Call(r) ==
    LET prompt == Prompt(req[r].query, web_sources[r])
        messages == Messages(chat_history[r], prompt)
    IN  /\ sent' = [sent EXCEPT ![r] = [system_prompt |-> system_prompt,
                                        messages |-> messages]]
        /\ wire' = [wire EXCEPT ![r] =
                       IF api_key THEN Parts(system_prompt, messages) ELSE <<>>]

\* What the backend does; without a key nothing is posted.
Backend(r, b) ==
    /\ b \in (IF api_key THEN backend ELSE {"none"})
    /\ reply' = [reply EXCEPT ![r] = b]

\* Lines 224-226 and 100-135: get_llm_completion returns.
GenerateAnswer(r) ==
    /\ pc[r] = "generate"
    /\ \E b \in Replies \cup {"none"} :
          /\ b # "NoReply"
          /\ Backend(r, b)
          /\ get_llm_completion(api_key, b).kind = "return"
          /\ search_result' = [search_result EXCEPT ![r] =
                [response |-> get_llm_completion(api_key, b).value,
                 sources |-> web_sources[r]]]
    /\ Call(r)
    /\ pc' = [pc EXCEPT ![r] = "add_assistant"]
    /\ UNCHANGED <<web, backend, api_key, chats, req, chat_history, raw_sources,
                   web_sources, status>>

\* A variant that takes the user message back when the completion raises.
GenerateAnswerRaisesRollback(r) ==
    /\ pc[r] = "generate"
    /\ \E b \in Replies \cup {"none"} :
          /\ b # "NoReply"
          /\ Backend(r, b)
          /\ get_llm_completion(api_key, b).kind = "raise"
    /\ Call(r)
    /\ chats' = [k \in ExistingChats |->
                    IF k = <<req[r].username, req[r].chat_id>>
                    THEN SelectSeq(chats[k], LAMBDA m : m.origin # r)
                    ELSE chats[k]]
    /\ status' = [status EXCEPT ![r] = INTERNAL_SERVER_ERROR]
    /\ pc' = [pc EXCEPT ![r] = "error"]
    /\ UNCHANGED <<web, backend, api_key, req, chat_history, raw_sources,
                   web_sources, search_result>>

\* get_llm_completion raises: nothing in generate_answer or post_messages
\* catches it.
GenerateAnswerRaises(r) ==
    /\ pc[r] = "generate"
    /\ \E b \in Replies \cup {"none"} :
          /\ b # "NoReply"
          /\ Backend(r, b)
          /\ get_llm_completion(api_key, b).kind = "raise"
    /\ Call(r)
    /\ status' = [status EXCEPT ![r] = INTERNAL_SERVER_ERROR]
    /\ pc' = [pc EXCEPT ![r] = "error"]
    /\ UNCHANGED <<web, backend, api_key, chats, req, chat_history, raw_sources,
                   web_sources, search_result>>

\* Line 71: requests.post is given no timeout; when the backend sends nothing
\* the call does not return.
GenerateAnswerBlocks(r) ==
    /\ pc[r] = "generate"
    /\ Backend(r, "NoReply")
    /\ Call(r)
    /\ pc' = [pc EXCEPT ![r] = "blocked"]
    /\ UNCHANGED <<web, backend, api_key, chats, req, chat_history, raw_sources,
                   web_sources, search_result, status>>

\* A variant that persists the assistant message without its sources.
AddAssistantMessageNoSources(r) ==
    /\ pc[r] = "add_assistant"
    /\ chats' = add_message_query(req[r].username, "assistant",
                                  search_result[r].response, <<>>,
                                  req[r].chat_id, r)
    /\ status' = [status EXCEPT ![r] = CREATED]
    /\ pc' = [pc EXCEPT ![r] = "done"]
    /\ UNCHANGED <<web, backend, api_key, req, chat_history, raw_sources,
                   web_sources, sent, wire, reply, search_result>>

\* Lines 228-237.
AddAssistantMessage(r) ==
    /\ pc[r] = "add_assistant"
    /\ chats' = add_message_query(req[r].username, "assistant",
                                  search_result[r].response,
                                  search_result[r].sources, req[r].chat_id, r)
    /\ status' = [status EXCEPT ![r] = CREATED]
    /\ pc' = [pc EXCEPT ![r] = "done"]
    /\ UNCHANGED <<web, backend, api_key, req, chat_history, raw_sources,
                   web_sources, sent, wire, reply, search_result>>

post_messages(r) ==
    \/ LoadHistory(r)
    \/ AddUserMessage(r)
    \/ SearchWeb(r)
    \/ SearchWebRaises(r)
    \/ GenerateAnswer(r)
    \/ GenerateAnswerRaises(r)
    \/ GenerateAnswerBlocks(r)
    \/ AddAssistantMessage(r)

Next == \E r \in Requests : get_messages(r) \/ post_messages(r)

Spec == Init /\ [][Next]_vars

SpecOne == InitOne /\ [][Next]_vars

----------------------------------------------------------------------------
(* Notions the properties share. *)

Target(r) == <<req[r].username, req[r].chat_id>>

IsPost(r) == req[r].method = "POST"

\* The request has made its call of get_llm_completion.
Called(r) == sent[r] # NotSent

UserMessage(r) ==
    [role |-> "user", body |-> req[r].query, sources |-> <<>>, origin |-> r]

AssistantMessage(r) ==
    [role |-> "assistant", body |-> search_result[r].response,
     sources |-> search_result[r].sources, origin |-> r]

IsPrefix(s, t) == Len(s) <= Len(t) /\ \A i \in 1..Len(s) : s[i] = t[i]

\* No other request added a message to r's chat after r loaded the history.
Alone(r) ==
    \A i \in DOMAIN chats[Target(r)] :
        i > Len(chat_history[r]) => chats[Target(r)][i].origin = r

\* The indices of the sources that have a text, and the k-th of them.
WithText(raw) == {i \in DOMAIN raw : raw[i].text # None}

Kth(S, k) == CHOOSE i \in S : Cardinality({j \in S : j <= i}) = k

\* The sources with a text, in their original order.
Kept(raw) == [k \in 1..Cardinality(WithText(raw)) |-> raw[Kth(WithText(raw), k)]]

\* The combined segment renders exactly the sources ws after the query q:
\* the header, then seven tokens for each source, numbered from 0.
Renders(prompt, q, ws) ==
    /\ Len(prompt) = 2 + Len(q) + 7 * Len(ws)
    /\ prompt[1] = "User search query: "
    /\ SubSeq(prompt, 2, 1 + Len(q)) = q
    /\ prompt[2 + Len(q)] = "\n\nWeb search results:\n"
    /\ \A k \in 1..Len(ws) :
          SubSeq(prompt, 2 + Len(q) + 7 * (k - 1) + 1, 2 + Len(q) + 7 * k)
             = <<"Result ", ToString(k - 1), " (URL: ", ws[k].url[1], "):\n",
                 ws[k].text[1], "\n\n">>

----------------------------------------------------------------------------
(* C1: when a POST /messages on a chat returns, and no other request wrote  *)
(* to the chat meanwhile, the chat holds the messages the request found,    *)
(* unchanged and in order, then the user message (role user, body the       *)
(* query, no sources), then the assistant message (role assistant, body the *)
(* returned response, sources the returned sources): n + 2 messages.  With  *)
(* other requests writing, the messages found are still a prefix.           *)

C1_AnswerInChatAppendsTwo ==
    \A r \in Requests :
        (pc[r] = "done" /\ IsPost(r) /\ Target(r) \in ExistingChats) =>
            /\ IsPrefix(chat_history[r], get_messages_query(req[r].username,
                                                            req[r].chat_id))
            /\ Alone(r) =>
                  get_messages_query(req[r].username, req[r].chat_id)
                     = chat_history[r] \o <<UserMessage(r), AssistantMessage(r)>>

\* Scenario C: a chat with 2 prior messages holds 4 after the call.
C1_Witness ==
    \E r \in Requests :
        /\ pc[r] = "done" /\ IsPost(r) /\ Target(r) \in ExistingChats
        /\ Alone(r)
        /\ Len(chat_history[r]) = 2
        /\ Len(chats[Target(r)]) = 4
        /\ search_result[r].sources # <<>>

----------------------------------------------------------------------------
(* C2: the history segments handed to get_llm_completion are the bodies of  *)
(* the messages the request loaded, oldest first, which are the first       *)
(* messages of the chat; no message of the request itself is among them,    *)
(* and the query is in the last segment alone.                              *)

C2_HistoryIsPreUpdate ==
    \A r \in Requests :
        Called(r) =>
            LET m == sent[r].messages
                h == chat_history[r]
            IN  /\ Len(m) = Len(h) + 1
                /\ \A i \in 1..Len(h) :
                      /\ m[i].text = h[i].body
                      /\ h[i].origin # r
                      /\ m[i].text[1] # "User search query: "
                /\ m[Len(m)].text[1] = "User search query: "
                /\ SubSeq(m[Len(m)].text, 2, 1 + Len(req[r].query)) = req[r].query
                /\ Target(r) \in ExistingChats =>
                      /\ IsPrefix(h, chats[Target(r)])
                      /\ \A i \in DOMAIN chats[Target(r)] :
                            chats[Target(r)][i].origin = r => i > Len(h)

\* A call made with a history of two or more messages, one of them written
\* by another request, while the request's own user message is in the chat.
C2_Witness ==
    \E r \in Requests :
        /\ Called(r)
        /\ Target(r) \in ExistingChats
        /\ Len(chat_history[r]) >= 2
        /\ \E i \in DOMAIN chat_history[r] : chat_history[r][i].origin \notin {0, r}
        /\ \E i \in DOMAIN chats[Target(r)] : chats[Target(r)][i] = UserMessage(r)

----------------------------------------------------------------------------
(* C3: of the sources the Source Fetcher returned, exactly those with a     *)
(* text, in their original order, are what search_web returns, what the     *)
(* combined segment renders (indexed from 0), what the SearchResult holds   *)
(* and what the assistant message cites.                                    *)

C3_OnlySourcesWithText ==
    \A r \in Requests :
        LET kept == Kept(raw_sources[r]) IN
        /\ pc[r] \in {"generate", "add_assistant", "done", "error", "blocked"} =>
              /\ web_sources[r] = kept
              /\ \A i \in DOMAIN web_sources[r] : web_sources[r][i].text # None
        /\ Called(r) =>
              Renders(sent[r].messages[Len(sent[r].messages)].text,
                      req[r].query, kept)
        /\ pc[r] \in {"add_assistant", "done"} => search_result[r].sources = kept
        /\ \A k \in ExistingChats : \A i \in DOMAIN chats[k] :
              (chats[k][i].origin = r /\ chats[k][i].role = "assistant") =>
                  chats[k][i].sources = kept

\* The fetcher returned a source without text before one with text, and the
\* assistant message is persisted.
C3_Witness ==
    \E r \in Requests :
        /\ pc[r] = "done" /\ IsPost(r) /\ Target(r) \in ExistingChats
        /\ Len(raw_sources[r]) = 2
        /\ raw_sources[r][1].text = None
        /\ raw_sources[r][2].text # None
        /\ \E i \in DOMAIN chats[Target(r)] :
              /\ chats[Target(r)][i].origin = r
              /\ chats[Target(r)][i].role = "assistant"
              /\ Len(chats[Target(r)][i].sources) = 1

----------------------------------------------------------------------------
(* C4: every failure of the Completion Client (missing credential, network  *)
(* error, non-2xx status, malformed response) is absorbed: the request      *)
(* builds a SearchResult with an absent response and the filtered sources   *)
(* and raises no error.                                                     *)

CompletionFailed(r) ==
    /\ Called(r)
    /\ pc[r] \in {"add_assistant", "done", "error"}
    /\ \/ ~api_key
       \/ reply[r] \in {"ConnectionError", "HTTP500", "EmptyObject",
                        "NoCandidates", "NoContent"}

C4_CompletionFailureIsAbsorbed ==
    \A r \in Requests :
        CompletionFailed(r) =>
            /\ pc[r] # "error"
            /\ search_result[r] = [response |-> None, sources |-> web_sources[r]]

----------------------------------------------------------------------------
(* C5: a request whose completion call gets no answer ends with a TIMEOUT   *)
(* error and persists no assistant message; it does not stay blocked.       *)

C5_TimeoutEndsTheRequest ==
    \A r \in Requests :
        reply[r] = "NoReply" =>
            /\ pc[r] = "error"
            /\ status[r] = "TIMEOUT"
            /\ \A k \in ExistingChats : \A i \in DOMAIN chats[k] :
                  ~(chats[k][i].origin = r /\ chats[k][i].role = "assistant")

----------------------------------------------------------------------------
(* C6: a /messages request that names a user or chat that does not exist    *)
(* ends with NOT_FOUND, and has added no message.                           *)

C6_UnknownChatIsNotFound ==
    \A r \in Requests :
        (pc[r] \in {"done", "error"} /\ Target(r) \notin ExistingChats) =>
            /\ status[r] = "404 Not Found"
            /\ \A k \in ExistingChats : \A i \in DOMAIN chats[k] :
                  chats[k][i].origin # r

----------------------------------------------------------------------------
(* C7: a user message that is in a chat stays in it, at its place, in every *)
(* later state: no step, failing or not, removes it.                        *)

C7_UserMessageStays ==
    [][\A k \in ExistingChats : \A i \in DOMAIN chats[k] :
          chats[k][i].role = "user" =>
              (i \in DOMAIN chats'[k] /\ chats'[k][i] = chats[k][i])]_vars

\* A request ended in an error after it persisted its user message, and the
\* message is in the chat.
C7_Witness ==
    \E r \in Requests :
        /\ pc[r] = "error" /\ Called(r)
        /\ Target(r) \in ExistingChats
        /\ \E i \in DOMAIN chats[Target(r)] : chats[Target(r)][i] = UserMessage(r)

----------------------------------------------------------------------------
(* C8: with no sources, the segments handed to get_llm_completion are the   *)
(* bodies of the history in order and then one segment with the query and   *)
(* no "Result" block: len(H) + 1 segments, none the system instruction,     *)
(* which is passed beside them.                                             *)

C8_NoSourcesSegments ==
    \A r \in Requests :
        (Called(r) /\ web_sources[r] = <<>>) =>
            LET m == sent[r].messages
                h == chat_history[r]
            IN  /\ Len(m) = Len(h) + 1
                /\ \A i \in 1..Len(h) : m[i] = [text |-> h[i].body]
                /\ m[Len(m)].text = <<"User search query: ">> \o req[r].query
                                       \o <<"\n\nWeb search results:\n">>
                /\ \A j \in DOMAIN m[Len(m)].text : m[Len(m)].text[j] # "Result "
                /\ \A i \in DOMAIN m : m[i].text # system_prompt
                /\ sent[r].system_prompt = system_prompt

\* A call made with no sources and a history of two messages.
C8_Witness ==
    \E r \in Requests :
        /\ Called(r)
        /\ web_sources[r] = <<>>
        /\ Len(raw_sources[r]) > 0
        /\ Len(chat_history[r]) = 2

----------------------------------------------------------------------------
(* C9: a 2xx reply whose JSON lacks candidates[0].content.parts[0].text     *)
(* (no candidates, an empty list, or a deeper field missing) makes          *)
(* get_llm_completion end without raising, in an outcome that differs from  *)
(* the outcome of a network error.                                          *)

C9_MissingPathIsNoContent ==
    \A r \in Requests :
        (api_key /\ pc[r] \in {"add_assistant", "done", "error"}
                 /\ reply[r] \in {"EmptyObject", "NoCandidates", "NoContent"}) =>
            /\ pc[r] # "error"
            /\ get_llm_completion(api_key, reply[r])
                  # get_llm_completion(api_key, "ConnectionError")

----------------------------------------------------------------------------
(* C10: with requests running concurrently on a chat, every assistant       *)
(* message in the chat comes after the user message of the same request,    *)
(* and the chat never holds more assistant messages than user messages.     *)

OfRole(k, role) == {i \in DOMAIN chats[k] : chats[k][i].role = role}

C10_AssistantFollowsItsUser ==
    \A k \in ExistingChats :
        /\ \A i \in OfRole(k, "assistant") :
              \E j \in OfRole(k, "user") :
                  j < i /\ chats[k][j].origin = chats[k][i].origin
        /\ Cardinality(OfRole(k, "assistant")) <= Cardinality(OfRole(k, "user"))

\* Two requests interleaved: both user messages, then both assistant
\* messages.
C10_Witness ==
    \E k \in ExistingChats : \E i \in DOMAIN chats[k] :
        /\ i + 3 \in DOMAIN chats[k]
        /\ chats[k][i].role = "user" /\ chats[k][i + 1].role = "user"
        /\ chats[k][i + 2].role = "assistant" /\ chats[k][i + 3].role = "assistant"
        /\ chats[k][i].origin # chats[k][i + 1].origin
        /\ chats[k][i].origin # 0 /\ chats[k][i + 1].origin # 0

====
